---- MODULE Spec2Model ----
(***************************************************************************)
(* Model of src/app.py, the two-pane Coordinator / Analyst Streamlit       *)
(* dashboard.                                                              *)
(*                                                                         *)
(* The program is a Streamlit script: every external event (a widget       *)
(* change, a chat submission) and every st.rerun() executes the script     *)
(* body from line 114 to the end against the persistent st.session_state.  *)
(* st.rerun() and st.stop() end the running script at the statement that   *)
(* calls them; st.rerun() additionally queues one new run of the script,   *)
(* in which the one-shot st.chat_input widget yields None again.  A widget *)
(* event that arrives while the script is running stops it at its next     *)
(* st.* call, and the run for that event follows; an event that arrives    *)
(* while a rerun is queued is served by one run for both.                  *)
(*                                                                         *)
(* A text is the sequence of the Unicode code points of its characters,    *)
(* so that str.lower(), the substring test of line 97 and the f-strings    *)
(* are computed as the code computes them.  The text a definition stands   *)
(* for is given in the comment before it.                                  *)
(***************************************************************************)
EXTENDS Integers, Sequences, FiniteSets, TLC

VARIABLES
    api_client,            \* st.session_state.api_client
    main_chat_history,     \* st.session_state.main_chat_history
    analyst_chat_history,  \* st.session_state.analyst_chat_history
    agent_status,          \* st.session_state.agent_status
    data_transfer,         \* st.session_state.data_transfer
    gemini_api_key,        \* value held by the sidebar text_input widget
    calls,                 \* number of client.models.generate_content calls made so far
    sent,                  \* the contents argument of the latest such call
    chat_input_shown,      \* the page shows the Coordinator chat input
    pc,                    \* "idle": awaiting an external event; "rerun": a rerun is queued;
                           \* "event": the run was stopped by a widget event, whose run is due
    disturbed,             \* history: some run was stopped by, or merged with, a widget event
    submitted,             \* history: number of Coordinator submissions so far
    last                   \* history: the last Coordinator submission and the backing service's disposition

vars == <<api_client, main_chat_history, analyst_chat_history, agent_status,
          data_transfer, calls, sent, gemini_api_key, chat_input_shown, pc,
          disturbed, submitted, last>>

----------------------------------------------------------------------------
(* Bounds *)

\* The code accepts any number of submissions; sessions of up to
\* MaxSubmissions submissions are explored.
MaxSubmissions == 3

----------------------------------------------------------------------------
(* Constants of the program *)

None == "None"

\* None as the value of data_transfer (a packet is a record)
NoPacket == [none |-> TRUE]

USER_AVATAR == "user-avatar"
ASSISTANT_AVATAR == "assistant-avatar"
ANALYST_AVATAR == "analyst-avatar"
GEMINI_MODEL_ROLE == "model"

AgentKeys == {"Coordinator", "Analyst"}

AgentAvatar(agent_key) ==
    IF agent_key = "Coordinator" THEN ASSISTANT_AVATAR ELSE ANALYST_AVATAR

StatusLabels == {"Available", "Working", "Delegated", "Error"}

\* "data science"
Keyword == <<100, 97, 116, 97, 32, 115, 99, 105, 101, 110, 99, 101>>

\* "Analyze Data Science Request"
TaskDescription == <<65, 110, 97, 108, 121, 122, 101, 32, 68, 97, 116, 97, 32, 83, 99, 105, 101, 110, 99, 101, 32, 82, 101, 113, 117, 101, 115, 116>>

----------------------------------------------------------------------------
(* Inputs *)

\* "data science"
TextLower == <<100, 97, 116, 97, 32, 115, 99, 105, 101, 110, 99, 101>>
\* "Data Science tips"
TextMixed == <<68, 97, 116, 97, 32, 83, 99, 105, 101, 110, 99, 101, 32, 116, 105, 112, 115>>
\* "datascience"
TextNoSpace == <<100, 97, 116, 97, 115, 99, 105, 101, 110, 99, 101>>
\* "What is a Pandas DataFrame?"
TextPandas == <<87, 104, 97, 116, 32, 105, 115, 32, 97, 32, 80, 97, 110, 100, 97, 115, 32, 68, 97, 116, 97, 70, 114, 97, 109, 101, 63>>
\* "What's the weather?"
TextWeather == <<87, 104, 97, 116, 39, 115, 32, 116, 104, 101, 32, 119, 101, 97, 116, 104, 101, 114, 63>>
\* "DATA SCIENCE" followed by " ", U+00C9 (E acute), U+03A3 (capital sigma), U+0130
TextAccent == <<68, 65, 84, 65, 32, 83, 67, 73, 69, 78, 67, 69, 32, 201, 931, 304>>

\* Non-empty texts a user submits to the Coordinator chat input.
UserTexts == {TextLower, TextMixed, TextNoSpace, TextPandas, TextWeather, TextAccent}

\* What client.models.generate_content does when it is called.
Outcomes == {"ok", "APIError", "Exception"}

\* Values of the sidebar key field: empty, one genai.Client rejects, one it accepts.
KeyInputs == {"", "bad-key", "good-key"}

ClientInitFails(key) == key = "bad-key"

----------------------------------------------------------------------------
(* str.lower() and the substring test *)

\* The single-character lower-case mappings of Python 3.11's Unicode
\* database, as <<first, last, step, delta>>: every code point c with
\* first <= c <= last and (c - first) % step = 0 becomes c + delta.
LowerRanges ==
  <<
    <<65, 90, 1, 32>>, <<192, 214, 1, 32>>, <<216, 222, 1, 32>>, <<256, 302, 2, 1>>, <<306, 310, 2, 1>>,
    <<313, 327, 2, 1>>, <<330, 374, 2, 1>>, <<376, 376, 1, -121>>, <<377, 381, 2, 1>>, <<385, 385, 1, 210>>,
    <<386, 388, 2, 1>>, <<390, 390, 1, 206>>, <<391, 391, 1, 1>>, <<393, 394, 1, 205>>, <<395, 395, 1, 1>>,
    <<398, 398, 1, 79>>, <<399, 399, 1, 202>>, <<400, 400, 1, 203>>, <<401, 401, 1, 1>>, <<403, 403, 1, 205>>,
    <<404, 404, 1, 207>>, <<406, 406, 1, 211>>, <<407, 407, 1, 209>>, <<408, 408, 1, 1>>, <<412, 412, 1, 211>>,
    <<413, 413, 1, 213>>, <<415, 415, 1, 214>>, <<416, 420, 2, 1>>, <<422, 422, 1, 218>>, <<423, 423, 1, 1>>,
    <<425, 425, 1, 218>>, <<428, 428, 1, 1>>, <<430, 430, 1, 218>>, <<431, 431, 1, 1>>, <<433, 434, 1, 217>>,
    <<435, 437, 2, 1>>, <<439, 439, 1, 219>>, <<440, 440, 1, 1>>, <<444, 444, 1, 1>>, <<452, 452, 1, 2>>,
    <<453, 453, 1, 1>>, <<455, 455, 1, 2>>, <<456, 456, 1, 1>>, <<458, 458, 1, 2>>, <<459, 475, 2, 1>>,
    <<478, 494, 2, 1>>, <<497, 497, 1, 2>>, <<498, 500, 2, 1>>, <<502, 502, 1, -97>>, <<503, 503, 1, -56>>,
    <<504, 542, 2, 1>>, <<544, 544, 1, -130>>, <<546, 562, 2, 1>>, <<570, 570, 1, 10795>>, <<571, 571, 1, 1>>,
    <<573, 573, 1, -163>>, <<574, 574, 1, 10792>>, <<577, 577, 1, 1>>, <<579, 579, 1, -195>>, <<580, 580, 1, 69>>,
    <<581, 581, 1, 71>>, <<582, 590, 2, 1>>, <<880, 882, 2, 1>>, <<886, 886, 1, 1>>, <<895, 895, 1, 116>>,
    <<902, 902, 1, 38>>, <<904, 906, 1, 37>>, <<908, 908, 1, 64>>, <<910, 911, 1, 63>>, <<913, 929, 1, 32>>,
    <<931, 939, 1, 32>>, <<975, 975, 1, 8>>, <<984, 1006, 2, 1>>, <<1012, 1012, 1, -60>>, <<1015, 1015, 1, 1>>,
    <<1017, 1017, 1, -7>>, <<1018, 1018, 1, 1>>, <<1021, 1023, 1, -130>>, <<1024, 1039, 1, 80>>, <<1040, 1071, 1, 32>>,
    <<1120, 1152, 2, 1>>, <<1162, 1214, 2, 1>>, <<1216, 1216, 1, 15>>, <<1217, 1229, 2, 1>>, <<1232, 1326, 2, 1>>,
    <<1329, 1366, 1, 48>>, <<4256, 4293, 1, 7264>>, <<4295, 4295, 1, 7264>>, <<4301, 4301, 1, 7264>>, <<5024, 5103, 1, 38864>>,
    <<5104, 5109, 1, 8>>, <<7312, 7354, 1, -3008>>, <<7357, 7359, 1, -3008>>, <<7680, 7828, 2, 1>>, <<7838, 7838, 1, -7615>>,
    <<7840, 7934, 2, 1>>, <<7944, 7951, 1, -8>>, <<7960, 7965, 1, -8>>, <<7976, 7983, 1, -8>>, <<7992, 7999, 1, -8>>,
    <<8008, 8013, 1, -8>>, <<8025, 8031, 2, -8>>, <<8040, 8047, 1, -8>>, <<8072, 8079, 1, -8>>, <<8088, 8095, 1, -8>>,
    <<8104, 8111, 1, -8>>, <<8120, 8121, 1, -8>>, <<8122, 8123, 1, -74>>, <<8124, 8124, 1, -9>>, <<8136, 8139, 1, -86>>,
    <<8140, 8140, 1, -9>>, <<8152, 8153, 1, -8>>, <<8154, 8155, 1, -100>>, <<8168, 8169, 1, -8>>, <<8170, 8171, 1, -112>>,
    <<8172, 8172, 1, -7>>, <<8184, 8185, 1, -128>>, <<8186, 8187, 1, -126>>, <<8188, 8188, 1, -9>>, <<8486, 8486, 1, -7517>>,
    <<8490, 8490, 1, -8383>>, <<8491, 8491, 1, -8262>>, <<8498, 8498, 1, 28>>, <<8544, 8559, 1, 16>>, <<8579, 8579, 1, 1>>,
    <<9398, 9423, 1, 26>>, <<11264, 11311, 1, 48>>, <<11360, 11360, 1, 1>>, <<11362, 11362, 1, -10743>>, <<11363, 11363, 1, -3814>>,
    <<11364, 11364, 1, -10727>>, <<11367, 11371, 2, 1>>, <<11373, 11373, 1, -10780>>, <<11374, 11374, 1, -10749>>, <<11375, 11375, 1, -10783>>,
    <<11376, 11376, 1, -10782>>, <<11378, 11378, 1, 1>>, <<11381, 11381, 1, 1>>, <<11390, 11391, 1, -10815>>, <<11392, 11490, 2, 1>>,
    <<11499, 11501, 2, 1>>, <<11506, 11506, 1, 1>>, <<42560, 42604, 2, 1>>, <<42624, 42650, 2, 1>>, <<42786, 42798, 2, 1>>,
    <<42802, 42862, 2, 1>>, <<42873, 42875, 2, 1>>, <<42877, 42877, 1, -35332>>, <<42878, 42886, 2, 1>>, <<42891, 42891, 1, 1>>,
    <<42893, 42893, 1, -42280>>, <<42896, 42898, 2, 1>>, <<42902, 42920, 2, 1>>, <<42922, 42922, 1, -42308>>, <<42923, 42923, 1, -42319>>,
    <<42924, 42924, 1, -42315>>, <<42925, 42925, 1, -42305>>, <<42926, 42926, 1, -42308>>, <<42928, 42928, 1, -42258>>, <<42929, 42929, 1, -42282>>,
    <<42930, 42930, 1, -42261>>, <<42931, 42931, 1, 928>>, <<42932, 42946, 2, 1>>, <<42948, 42948, 1, -48>>, <<42949, 42949, 1, -42307>>,
    <<42950, 42950, 1, -35384>>, <<42951, 42953, 2, 1>>, <<42960, 42960, 1, 1>>, <<42966, 42968, 2, 1>>, <<42997, 42997, 1, 1>>,
    <<65313, 65338, 1, 32>>, <<66560, 66599, 1, 40>>, <<66736, 66771, 1, 40>>, <<66928, 66938, 1, 39>>, <<66940, 66954, 1, 39>>,
    <<66956, 66962, 1, 39>>, <<66964, 66965, 1, 39>>, <<68736, 68786, 1, 64>>, <<71840, 71871, 1, 32>>, <<93760, 93791, 1, 32>>,
    <<125184, 125217, 1, 34>>
  >>

\* The Case_Ignorable code points, as <<first, last>>
CaseIgnorableRanges ==
  <<
    <<39, 39>>, <<46, 46>>, <<58, 58>>, <<94, 94>>, <<96, 96>>, <<168, 168>>, <<173, 173>>,
    <<175, 175>>, <<180, 180>>, <<183, 184>>, <<688, 879>>, <<884, 885>>, <<890, 890>>, <<900, 901>>,
    <<903, 903>>, <<1155, 1161>>, <<1369, 1369>>, <<1375, 1375>>, <<1425, 1469>>, <<1471, 1471>>, <<1473, 1474>>,
    <<1476, 1477>>, <<1479, 1479>>, <<1524, 1524>>, <<1536, 1541>>, <<1552, 1562>>, <<1564, 1564>>, <<1600, 1600>>,
    <<1611, 1631>>, <<1648, 1648>>, <<1750, 1757>>, <<1759, 1768>>, <<1770, 1773>>, <<1807, 1807>>, <<1809, 1809>>,
    <<1840, 1866>>, <<1958, 1968>>, <<2027, 2037>>, <<2042, 2042>>, <<2045, 2045>>, <<2070, 2093>>, <<2137, 2139>>,
    <<2184, 2184>>, <<2192, 2193>>, <<2200, 2207>>, <<2249, 2306>>, <<2362, 2362>>, <<2364, 2364>>, <<2369, 2376>>,
    <<2381, 2381>>, <<2385, 2391>>, <<2402, 2403>>, <<2417, 2417>>, <<2433, 2433>>, <<2492, 2492>>, <<2497, 2500>>,
    <<2509, 2509>>, <<2530, 2531>>, <<2558, 2558>>, <<2561, 2562>>, <<2620, 2620>>, <<2625, 2626>>, <<2631, 2632>>,
    <<2635, 2637>>, <<2641, 2641>>, <<2672, 2673>>, <<2677, 2677>>, <<2689, 2690>>, <<2748, 2748>>, <<2753, 2757>>,
    <<2759, 2760>>, <<2765, 2765>>, <<2786, 2787>>, <<2810, 2815>>, <<2817, 2817>>, <<2876, 2876>>, <<2879, 2879>>,
    <<2881, 2884>>, <<2893, 2893>>, <<2901, 2902>>, <<2914, 2915>>, <<2946, 2946>>, <<3008, 3008>>, <<3021, 3021>>,
    <<3072, 3072>>, <<3076, 3076>>, <<3132, 3132>>, <<3134, 3136>>, <<3142, 3144>>, <<3146, 3149>>, <<3157, 3158>>,
    <<3170, 3171>>, <<3201, 3201>>, <<3260, 3260>>, <<3263, 3263>>, <<3270, 3270>>, <<3276, 3277>>, <<3298, 3299>>,
    <<3328, 3329>>, <<3387, 3388>>, <<3393, 3396>>, <<3405, 3405>>, <<3426, 3427>>, <<3457, 3457>>, <<3530, 3530>>,
    <<3538, 3540>>, <<3542, 3542>>, <<3633, 3633>>, <<3636, 3642>>, <<3654, 3662>>, <<3761, 3761>>, <<3764, 3772>>,
    <<3782, 3782>>, <<3784, 3789>>, <<3864, 3865>>, <<3893, 3893>>, <<3895, 3895>>, <<3897, 3897>>, <<3953, 3966>>,
    <<3968, 3972>>, <<3974, 3975>>, <<3981, 3991>>, <<3993, 4028>>, <<4038, 4038>>, <<4141, 4144>>, <<4146, 4151>>,
    <<4153, 4154>>, <<4157, 4158>>, <<4184, 4185>>, <<4190, 4192>>, <<4209, 4212>>, <<4226, 4226>>, <<4229, 4230>>,
    <<4237, 4237>>, <<4253, 4253>>, <<4348, 4348>>, <<4957, 4959>>, <<5906, 5908>>, <<5938, 5939>>, <<5970, 5971>>,
    <<6002, 6003>>, <<6068, 6069>>, <<6071, 6077>>, <<6086, 6086>>, <<6089, 6099>>, <<6103, 6103>>, <<6109, 6109>>,
    <<6155, 6159>>, <<6211, 6211>>, <<6277, 6278>>, <<6313, 6313>>, <<6432, 6434>>, <<6439, 6440>>, <<6450, 6450>>,
    <<6457, 6459>>, <<6679, 6680>>, <<6683, 6683>>, <<6742, 6742>>, <<6744, 6750>>, <<6752, 6752>>, <<6754, 6754>>,
    <<6757, 6764>>, <<6771, 6780>>, <<6783, 6783>>, <<6823, 6823>>, <<6832, 6862>>, <<6912, 6915>>, <<6964, 6964>>,
    <<6966, 6970>>, <<6972, 6972>>, <<6978, 6978>>, <<7019, 7027>>, <<7040, 7041>>, <<7074, 7077>>, <<7080, 7081>>,
    <<7083, 7085>>, <<7142, 7142>>, <<7144, 7145>>, <<7149, 7149>>, <<7151, 7153>>, <<7212, 7219>>, <<7222, 7223>>,
    <<7288, 7293>>, <<7376, 7378>>, <<7380, 7392>>, <<7394, 7400>>, <<7405, 7405>>, <<7412, 7412>>, <<7416, 7417>>,
    <<7468, 7530>>, <<7544, 7544>>, <<7579, 7679>>, <<8125, 8125>>, <<8127, 8129>>, <<8141, 8143>>, <<8157, 8159>>,
    <<8173, 8175>>, <<8189, 8190>>, <<8203, 8207>>, <<8216, 8217>>, <<8228, 8228>>, <<8231, 8231>>, <<8234, 8238>>,
    <<8288, 8292>>, <<8294, 8303>>, <<8305, 8305>>, <<8319, 8319>>, <<8336, 8348>>, <<8400, 8432>>, <<11388, 11389>>,
    <<11503, 11505>>, <<11631, 11631>>, <<11647, 11647>>, <<11744, 11775>>, <<11823, 11823>>, <<12293, 12293>>, <<12330, 12333>>,
    <<12337, 12341>>, <<12347, 12347>>, <<12441, 12446>>, <<12540, 12542>>, <<40981, 40981>>, <<42232, 42237>>, <<42508, 42508>>,
    <<42607, 42610>>, <<42612, 42621>>, <<42623, 42623>>, <<42652, 42655>>, <<42736, 42737>>, <<42752, 42785>>, <<42864, 42864>>,
    <<42888, 42890>>, <<42994, 42996>>, <<43000, 43001>>, <<43010, 43010>>, <<43014, 43014>>, <<43019, 43019>>, <<43045, 43046>>,
    <<43052, 43052>>, <<43204, 43205>>, <<43232, 43249>>, <<43263, 43263>>, <<43302, 43309>>, <<43335, 43345>>, <<43392, 43394>>,
    <<43443, 43443>>, <<43446, 43449>>, <<43452, 43453>>, <<43471, 43471>>, <<43493, 43494>>, <<43561, 43566>>, <<43569, 43570>>,
    <<43573, 43574>>, <<43587, 43587>>, <<43596, 43596>>, <<43632, 43632>>, <<43644, 43644>>, <<43696, 43696>>, <<43698, 43700>>,
    <<43703, 43704>>, <<43710, 43711>>, <<43713, 43713>>, <<43741, 43741>>, <<43756, 43757>>, <<43763, 43764>>, <<43766, 43766>>,
    <<43867, 43871>>, <<43881, 43883>>, <<44005, 44005>>, <<44008, 44008>>, <<44013, 44013>>, <<64286, 64286>>, <<64434, 64450>>,
    <<65024, 65039>>, <<65043, 65043>>, <<65056, 65071>>, <<65106, 65106>>, <<65109, 65109>>, <<65279, 65279>>, <<65287, 65287>>,
    <<65294, 65294>>, <<65306, 65306>>, <<65342, 65342>>, <<65344, 65344>>, <<65392, 65392>>, <<65438, 65439>>, <<65507, 65507>>,
    <<65529, 65531>>, <<66045, 66045>>, <<66272, 66272>>, <<66422, 66426>>, <<67456, 67461>>, <<67463, 67504>>, <<67506, 67514>>,
    <<68097, 68099>>, <<68101, 68102>>, <<68108, 68111>>, <<68152, 68154>>, <<68159, 68159>>, <<68325, 68326>>, <<68900, 68903>>,
    <<69291, 69292>>, <<69446, 69456>>, <<69506, 69509>>, <<69633, 69633>>, <<69688, 69702>>, <<69744, 69744>>, <<69747, 69748>>,
    <<69759, 69761>>, <<69811, 69814>>, <<69817, 69818>>, <<69821, 69821>>, <<69826, 69826>>, <<69837, 69837>>, <<69888, 69890>>,
    <<69927, 69931>>, <<69933, 69940>>, <<70003, 70003>>, <<70016, 70017>>, <<70070, 70078>>, <<70089, 70092>>, <<70095, 70095>>,
    <<70191, 70193>>, <<70196, 70196>>, <<70198, 70199>>, <<70206, 70206>>, <<70367, 70367>>, <<70371, 70378>>, <<70400, 70401>>,
    <<70459, 70460>>, <<70464, 70464>>, <<70502, 70508>>, <<70512, 70516>>, <<70712, 70719>>, <<70722, 70724>>, <<70726, 70726>>,
    <<70750, 70750>>, <<70835, 70840>>, <<70842, 70842>>, <<70847, 70848>>, <<70850, 70851>>, <<71090, 71093>>, <<71100, 71101>>,
    <<71103, 71104>>, <<71132, 71133>>, <<71219, 71226>>, <<71229, 71229>>, <<71231, 71232>>, <<71339, 71339>>, <<71341, 71341>>,
    <<71344, 71349>>, <<71351, 71351>>, <<71453, 71455>>, <<71458, 71461>>, <<71463, 71467>>, <<71727, 71735>>, <<71737, 71738>>,
    <<71995, 71996>>, <<71998, 71998>>, <<72003, 72003>>, <<72148, 72151>>, <<72154, 72155>>, <<72160, 72160>>, <<72193, 72202>>,
    <<72243, 72248>>, <<72251, 72254>>, <<72263, 72263>>, <<72273, 72278>>, <<72281, 72283>>, <<72330, 72342>>, <<72344, 72345>>,
    <<72752, 72758>>, <<72760, 72765>>, <<72767, 72767>>, <<72850, 72871>>, <<72874, 72880>>, <<72882, 72883>>, <<72885, 72886>>,
    <<73009, 73014>>, <<73018, 73018>>, <<73020, 73021>>, <<73023, 73029>>, <<73031, 73031>>, <<73104, 73105>>, <<73109, 73109>>,
    <<73111, 73111>>, <<73459, 73460>>, <<78896, 78904>>, <<92912, 92916>>, <<92976, 92982>>, <<92992, 92995>>, <<94031, 94031>>,
    <<94095, 94111>>, <<94176, 94177>>, <<94179, 94180>>, <<110576, 110579>>, <<110581, 110587>>, <<110589, 110590>>, <<113821, 113822>>,
    <<113824, 113827>>, <<118528, 118573>>, <<118576, 118598>>, <<119143, 119145>>, <<119155, 119170>>, <<119173, 119179>>, <<119210, 119213>>,
    <<119362, 119364>>, <<121344, 121398>>, <<121403, 121452>>, <<121461, 121461>>, <<121476, 121476>>, <<121499, 121503>>, <<121505, 121519>>,
    <<122880, 122886>>, <<122888, 122904>>, <<122907, 122913>>, <<122915, 122916>>, <<122918, 122922>>, <<123184, 123197>>, <<123566, 123566>>,
    <<123628, 123631>>, <<125136, 125142>>, <<125252, 125259>>, <<127995, 127999>>, <<917505, 917505>>, <<917536, 917631>>, <<917760, 917999>>
  >>

\* The Cased code points that are not Case_Ignorable, as <<first, last>>
\* (the sigma rule asks for Cased only of such code points)
CasedRanges ==
  <<
    <<65, 90>>, <<97, 122>>, <<170, 170>>, <<181, 181>>, <<186, 186>>, <<192, 214>>, <<216, 246>>,
    <<248, 442>>, <<444, 447>>, <<452, 659>>, <<661, 687>>, <<880, 883>>, <<886, 887>>, <<891, 893>>,
    <<895, 895>>, <<902, 902>>, <<904, 906>>, <<908, 908>>, <<910, 929>>, <<931, 1013>>, <<1015, 1153>>,
    <<1162, 1327>>, <<1329, 1366>>, <<1376, 1416>>, <<4256, 4293>>, <<4295, 4295>>, <<4301, 4301>>, <<4304, 4346>>,
    <<4349, 4351>>, <<5024, 5109>>, <<5112, 5117>>, <<7296, 7304>>, <<7312, 7354>>, <<7357, 7359>>, <<7424, 7467>>,
    <<7531, 7543>>, <<7545, 7578>>, <<7680, 7957>>, <<7960, 7965>>, <<7968, 8005>>, <<8008, 8013>>, <<8016, 8023>>,
    <<8025, 8025>>, <<8027, 8027>>, <<8029, 8029>>, <<8031, 8061>>, <<8064, 8116>>, <<8118, 8124>>, <<8126, 8126>>,
    <<8130, 8132>>, <<8134, 8140>>, <<8144, 8147>>, <<8150, 8155>>, <<8160, 8172>>, <<8178, 8180>>, <<8182, 8188>>,
    <<8450, 8450>>, <<8455, 8455>>, <<8458, 8467>>, <<8469, 8469>>, <<8473, 8477>>, <<8484, 8484>>, <<8486, 8486>>,
    <<8488, 8488>>, <<8490, 8493>>, <<8495, 8500>>, <<8505, 8505>>, <<8508, 8511>>, <<8517, 8521>>, <<8526, 8526>>,
    <<8544, 8575>>, <<8579, 8580>>, <<9398, 9449>>, <<11264, 11387>>, <<11390, 11492>>, <<11499, 11502>>, <<11506, 11507>>,
    <<11520, 11557>>, <<11559, 11559>>, <<11565, 11565>>, <<42560, 42605>>, <<42624, 42651>>, <<42786, 42863>>, <<42865, 42887>>,
    <<42891, 42894>>, <<42896, 42954>>, <<42960, 42961>>, <<42963, 42963>>, <<42965, 42969>>, <<42997, 42998>>, <<43002, 43002>>,
    <<43824, 43866>>, <<43872, 43880>>, <<43888, 43967>>, <<64256, 64262>>, <<64275, 64279>>, <<65313, 65338>>, <<65345, 65370>>,
    <<66560, 66639>>, <<66736, 66771>>, <<66776, 66811>>, <<66928, 66938>>, <<66940, 66954>>, <<66956, 66962>>, <<66964, 66965>>,
    <<66967, 66977>>, <<66979, 66993>>, <<66995, 67001>>, <<67003, 67004>>, <<68736, 68786>>, <<68800, 68850>>, <<71840, 71903>>,
    <<93760, 93823>>, <<119808, 119892>>, <<119894, 119964>>, <<119966, 119967>>, <<119970, 119970>>, <<119973, 119974>>, <<119977, 119980>>,
    <<119982, 119993>>, <<119995, 119995>>, <<119997, 120003>>, <<120005, 120069>>, <<120071, 120074>>, <<120077, 120084>>, <<120086, 120092>>,
    <<120094, 120121>>, <<120123, 120126>>, <<120128, 120132>>, <<120134, 120134>>, <<120138, 120144>>, <<120146, 120485>>, <<120488, 120512>>,
    <<120514, 120538>>, <<120540, 120570>>, <<120572, 120596>>, <<120598, 120628>>, <<120630, 120654>>, <<120656, 120686>>, <<120688, 120712>>,
    <<120714, 120744>>, <<120746, 120770>>, <<120772, 120779>>, <<122624, 122633>>, <<122635, 122654>>, <<125184, 125251>>, <<127280, 127305>>,
    <<127312, 127337>>, <<127344, 127369>>
  >>

InRanges(c, table) ==
    \E i \in 1..Len(table) : table[i][1] <= c /\ c <= table[i][2]

IsCaseIgnorable(c) == InRanges(c, CaseIgnorableRanges)

IsCased(c) == InRanges(c, CasedRanges)

InLowerRange(c, r) == r[1] <= c /\ c <= r[2] /\ (c - r[1]) % r[3] = 0

\* The code points chr(c).lower() consists of; U+0130 becomes two
LowerChar(c) ==
    IF c = 304
    THEN <<105, 775>>
    ELSE IF \E i \in 1..Len(LowerRanges) : InLowerRange(c, LowerRanges[i])
         THEN <<c + LowerRanges[CHOOSE i \in 1..Len(LowerRanges) :
                                    InLowerRange(c, LowerRanges[i])][4]>>
         ELSE <<c>>

\* U+03A3 at position i is a final sigma: the nearest code point before it
\* that is not case-ignorable is cased, and the nearest one after it that is
\* not case-ignorable, if any, is not cased
FinalSigma(text, i) ==
    /\ \E j \in 1..(i - 1) :
          /\ ~IsCaseIgnorable(text[j])
          /\ \A k \in (j + 1)..(i - 1) : IsCaseIgnorable(text[k])
          /\ IsCased(text[j])
    /\ \A j \in (i + 1)..Len(text) :
          (/\ ~IsCaseIgnorable(text[j])
           /\ \A k \in (i + 1)..(j - 1) : IsCaseIgnorable(text[k]))
              => ~IsCased(text[j])

\* The code points the character at position i of text becomes in text.lower()
LowerAt(text, i) ==
    IF text[i] = 931
    THEN IF FinalSigma(text, i) THEN <<962>> ELSE <<963>>
    ELSE LowerChar(text[i])

RECURSIVE LowerFrom(_, _)
LowerFrom(text, i) ==
    IF i > Len(text) THEN <<>> ELSE LowerAt(text, i) \o LowerFrom(text, i + 1)

\* text.lower()
Lower(text) == LowerFrom(text, 1)

\* needle in text
Contains(text, needle) ==
    \E i \in 0..(Len(text) - Len(needle)) :
        \A j \in 1..Len(needle) : text[i + j] = needle[j]

----------------------------------------------------------------------------
(* Turns and texts built by the script *)

Turn(role, content, avatar) == [role |-> role, content |-> content, avatar |-> avatar]

NoText == <<>>

\* The agent key as it appears in a text
AgentKeyText(agent_key) ==
    IF agent_key = "Coordinator"
    THEN <<67, 111, 111, 114, 100, 105, 110, 97, 116, 111, 114>>
    ELSE <<65, 110, 97, 108, 121, 115, 116>>

\* response.text of a successful call: "reply of <agent_key>"
ResponseText(agent_key) == <<114, 101, 112, 108, 121, 32, 111, 102, 32>> \o AgentKeyText(agent_key)

\* str(e) of the exception raised by the call: "e"
ExceptionText == <<101>>

\* "An API Error occurred for <agent_key>: <e>"
APIErrorText(agent_key) ==
    <<65, 110, 32, 65, 80, 73, 32, 69, 114, 114, 111, 114, 32, 111, 99, 99, 117, 114, 114, 101, 100, 32, 102, 111, 114, 32>>
        \o AgentKeyText(agent_key) \o <<58, 32>> \o ExceptionText

\* "An unexpected error occurred for <agent_key>: <e>"
UnexpectedErrorText(agent_key) ==
    <<65, 110, 32, 117, 110, 101, 120, 112, 101, 99, 116, 101, 100, 32, 101, 114, 114, 111, 114, 32, 111, 99, 99, 117, 114, 114, 101, 100, 32, 102, 111, 114, 32>>
        \o AgentKeyText(agent_key) \o <<58, 32>> \o ExceptionText

\* "TASK: <task>. INPUT: <prompt>"
AnalystPrompt(task_info) ==
    <<84, 65, 83, 75, 58, 32>> \o task_info.task
        \o <<46, 32, 73, 78, 80, 85, 84, 58, 32>> \o task_info.prompt

\* "Delegated Task:", two newlines, a backquote, the prompt, a backquote
DelegatedTaskText(original_user_prompt) ==
    <<68, 101, 108, 101, 103, 97, 116, 101, 100, 32, 84, 97, 115, 107, 58, 10, 10, 96>>
        \o original_user_prompt \o <<96>>

\* "**[Analyst Report]**" and two newlines
ReportPrefix == <<42, 42, 91, 65, 110, 97, 108, 121, 115, 116, 32, 82, 101, 112, 111, 114, 116, 93, 42, 42, 10, 10>>

AnalystReportText(analyst_response) == ReportPrefix \o analyst_response

----------------------------------------------------------------------------
(* One run of the script over the session state.                           *)
(* s is the session state with a field ctl: "run" while the script is      *)
(* executing, "rerun" once st.rerun() has ended it, "stop" once st.stop()  *)
(* has, "event" once a widget event has stopped it at a st.* call; and a   *)
(* field chat_input: the run has rendered the chat input of line 171.      *)

Session ==
    [api_client |-> api_client,
     main_chat_history |-> main_chat_history,
     analyst_chat_history |-> analyst_chat_history,
     agent_status |-> agent_status,
     data_transfer |-> data_transfer,
     calls |-> calls,
     sent |-> sent,
     chat_input |-> FALSE,
     ctl |-> "run"]

\* init_session_state on a fresh session
init_session_state ==
    [api_client |-> None,
     main_chat_history |-> <<>>,
     analyst_chat_history |-> <<>>,
     agent_status |-> [k \in AgentKeys |-> "Available"],
     data_transfer |-> NoPacket]

\* st.rerun(): the script run ends here and a new run is queued
st_rerun(s) == [s EXCEPT !.ctl = "rerun"]

\* st.stop(): the script run ends here
st_stop(s) == [s EXCEPT !.ctl = "stop"]

\* A widget event stops the script run at the st.* call it has reached
st_event(s) == [s EXCEPT !.ctl = "event"]

\* Where a widget event, if one arrives during a run, stops it:
\*   "sidebar"  at a st.* call of lines 114-123, before api_client is written
\*   "page"     at a st.* call of lines 129-171, after api_client is written
\*              and before the chat input of line 171 is rendered
\*   "message"  at a st.* call of lines 175-180 (225-230 in the Analyst block),
\*              after the user turn is appended and before
\*              generate_agent_response is called
\*   "reply"    at the st.markdown of line 187 (237), before the reply is appended
\*   "pane"     at a st.* call of lines 205-211, after the chat input is
\*              rendered and the Coordinator handler is done, before the
\*              Analyst handler of line 214
\*   "none"     no event arrives
Cuts == {"none", "sidebar", "page", "message", "reply", "pane"}

\* The role a transcript entry is sent under, line 78
GeminiRole(role) == IF role = "assistant" THEN GEMINI_MODEL_ROLE ELSE role

\* gemini_contents of lines 76-85: the history mapped entry by entry, then
\* the current prompt appended as a user message
gemini_contents(history, prompt_text) ==
    Append([i \in 1..Len(history) |->
                [role |-> GeminiRole(history[i].role),
                 parts |-> <<[text |-> history[i].content]>>]],
           [role |-> "user", parts |-> <<[text |-> prompt_text]>>])

\* client.models.generate_content is called with contents, line 88
CallModel(s, contents) == [s EXCEPT !.calls = @ + 1, !.sent = contents]

\* The delegation test of line 97
IsDelegation(agent_key, prompt_text) ==
    agent_key = "Coordinator" /\ Contains(Lower(prompt_text), Keyword)

\* generate_agent_response with the wrong label written at line 70
generate_agent_response_WrongLabel(s, agent_key, history_key, prompt_text, outcome) ==
    [state |-> st_rerun([s EXCEPT !.agent_status[agent_key] = "Delegated"]),
     text |-> NoText]

\* Result: the session state after the call and the text returned (NoText
\* when the call does not return because the script run has ended).
generate_agent_response(s, agent_key, history_key, prompt_text, outcome) ==
    LET s1 == [s EXCEPT !.agent_status[agent_key] = "Working"]
        s2 == st_rerun(s1)
        s3 == CallModel(s2, gemini_contents(s2[history_key], prompt_text))
    IN  IF s2.ctl # "run"
        THEN [state |-> s2, text |-> NoText]
        ELSE CASE outcome = "ok" ->
                    [state |-> [s3 EXCEPT !.agent_status[agent_key] =
                                    IF IsDelegation(agent_key, prompt_text)
                                    THEN "Delegated" ELSE "Available"],
                     text |-> ResponseText(agent_key)]
               [] outcome = "APIError" ->
                    [state |-> [s3 EXCEPT !.agent_status[agent_key] = "Error"],
                     text |-> APIErrorText(agent_key)]
               [] OTHER ->
                    [state |-> [s3 EXCEPT !.agent_status[agent_key] = "Error"],
                     text |-> UnexpectedErrorText(agent_key)]

\* The sidebar warning about a missing key without the st.stop() of line 135
Sidebar_NoStop(s, key) ==
    IF key # ""
    THEN IF ClientInitFails(key)
         THEN st_stop(s)
         ELSE [s EXCEPT !.api_client = "client"]
    ELSE s

\* Sidebar setup, lines 120-135
Sidebar(s, key) ==
    IF key # ""
    THEN IF ClientInitFails(key)
         THEN st_stop(s)
         ELSE [s EXCEPT !.api_client = "client"]
    ELSE st_stop(s)

\* The Coordinator handler assigning a fresh list holding the user turn at
\* line 174 instead of appending to the history
CoordinatorBlock_Overwrite(s, main_prompt, outcome, cut) ==
    IF main_prompt = None
    THEN s
    ELSE LET s1 == [s EXCEPT !.main_chat_history =
                        <<Turn("user", main_prompt, USER_AVATAR)>>]
         IN  IF cut = "message"
             THEN st_event(s1)
             ELSE generate_agent_response(s1, "Coordinator", "main_chat_history",
                                          main_prompt, outcome).state

\* The Coordinator handler writing the packet when the prompt is submitted,
\* before the reply is requested, instead of after a delegated reply
CoordinatorBlock_EagerPacket(s, main_prompt, outcome, cut) ==
    IF main_prompt = None
    THEN s
    ELSE LET s1 == [s EXCEPT !.main_chat_history =
                        Append(@, Turn("user", main_prompt, USER_AVATAR)),
                             !.data_transfer =
                        [task |-> TaskDescription, prompt |-> main_prompt]]
         IN  IF cut = "message"
             THEN st_event(s1)
             ELSE generate_agent_response(s1, "Coordinator", "main_chat_history",
                                          main_prompt, outcome).state

\* Coordinator chat input handler, lines 171-198; main_prompt = None when
\* the chat input yields nothing in this run
CoordinatorBlock(s, main_prompt, outcome, cut) ==
    IF main_prompt = None
    THEN s
    ELSE LET s1 == [s EXCEPT !.main_chat_history =
                        Append(@, Turn("user", main_prompt, USER_AVATAR))]
             g  == generate_agent_response(s1, "Coordinator", "main_chat_history",
                                           main_prompt, outcome)
         IN  IF cut = "message"
             THEN st_event(s1)
             ELSE IF g.state.ctl # "run"
             THEN g.state
             ELSE IF cut = "reply"
             THEN st_event(g.state)
             ELSE LET s2 == [g.state EXCEPT !.main_chat_history =
                                Append(@, Turn("assistant", g.text, AgentAvatar("Coordinator")))]
                  IN  IF s2.agent_status["Coordinator"] = "Delegated"
                      THEN st_rerun([s2 EXCEPT !.data_transfer =
                                        [task |-> TaskDescription, prompt |-> main_prompt]])
                      ELSE s2

\* Analyst delegated-task handler, lines 214-246
AnalystBlock(s, outcome, cut) ==
    IF s.data_transfer # NoPacket
    THEN LET task_info == s.data_transfer
             analyst_prompt == AnalystPrompt(task_info)
             original_user_prompt == task_info.prompt
             s1 == [s EXCEPT !.data_transfer = NoPacket]
             s2 == [s1 EXCEPT !.analyst_chat_history =
                        Append(@, Turn("user", DelegatedTaskText(original_user_prompt),
                                       AgentAvatar("Coordinator")))]
             g  == generate_agent_response(s2, "Analyst", "analyst_chat_history",
                                           analyst_prompt, outcome)
         IN  IF cut = "message"
             THEN st_event(s2)
             ELSE IF g.state.ctl # "run"
             THEN g.state
             ELSE IF cut = "reply"
             THEN st_event(g.state)
             ELSE LET s3 == [g.state EXCEPT !.analyst_chat_history =
                                Append(@, Turn("assistant", g.text, AgentAvatar("Analyst")))]
                      s4 == [s3 EXCEPT !.main_chat_history =
                                Append(@, Turn("assistant", AnalystReportText(g.text),
                                               AgentAvatar("Analyst")))]
                      s5 == [s4 EXCEPT !.agent_status["Coordinator"] = "Available"]
                  IN  st_rerun(s5)
    ELSE s

\* The script body, lines 114-246
Script(s, key, main_prompt, outcome, cut) ==
    IF cut = "sidebar"
    THEN st_event(s)
    ELSE LET a == Sidebar(s, key)
         IN  IF a.ctl # "run"
             THEN a
             ELSE IF cut = "page"
             THEN st_event(a)
             ELSE LET b == CoordinatorBlock([a EXCEPT !.chat_input = TRUE],
                                            main_prompt, outcome, cut)
                  IN  IF b.ctl # "run"
                      THEN b
                      ELSE IF cut = "pane"
                      THEN st_event(b)
                      ELSE AnalystBlock(b, outcome, cut)

\* The session state, page and scheduling left by a run that ended in state
\* r.  A run stopped by a widget event leaves the elements of the run before
\* it on the page.  merged: the run serves a widget event that arrived while
\* another run was due.
Commit(r, merged) ==
    /\ api_client' = r.api_client
    /\ main_chat_history' = r.main_chat_history
    /\ analyst_chat_history' = r.analyst_chat_history
    /\ agent_status' = r.agent_status
    /\ data_transfer' = r.data_transfer
    /\ calls' = r.calls
    /\ sent' = r.sent
    /\ chat_input_shown' =
           IF r.ctl = "event" THEN chat_input_shown \/ r.chat_input ELSE r.chat_input
    /\ pc' = IF r.ctl \in {"rerun", "event"} THEN r.ctl ELSE "idle"
    /\ disturbed' = (disturbed \/ merged \/ r.ctl = "event")

\* The user can submit iff the chat input is on the page
ChatInputShown == chat_input_shown

----------------------------------------------------------------------------
(* Actions *)

NoSubmission == [text |-> NoText, outcome |-> "none"]

\* The session after its first script run, made with the key field empty:
\* init_session_state has run and the script has stopped at line 135 before
\* rendering the chat input.
Init ==
    /\ api_client = init_session_state.api_client
    /\ main_chat_history = init_session_state.main_chat_history
    /\ analyst_chat_history = init_session_state.analyst_chat_history
    /\ agent_status = init_session_state.agent_status
    /\ data_transfer = init_session_state.data_transfer
    /\ calls = 0
    /\ sent = None
    /\ chat_input_shown = FALSE
    /\ gemini_api_key = ""
    /\ pc = "idle"
    /\ disturbed = FALSE
    /\ submitted = 0
    /\ last = NoSubmission

\* The user edits the sidebar key field; the script runs with no chat input.
EnterKey(key, outcome, cut) ==
    /\ key # gemini_api_key
    /\ gemini_api_key' = key
    /\ Commit(Script(Session, key, None, outcome, cut), pc # "idle")
    /\ UNCHANGED <<submitted, last>>

\* The user submits a text to the Coordinator chat input; the script runs
\* with that text as main_prompt.
Submit(text, outcome, cut) ==
    /\ ChatInputShown
    /\ submitted < MaxSubmissions
    /\ Commit(Script(Session, gemini_api_key, text, outcome, cut), pc # "idle")
    /\ submitted' = submitted + 1
    /\ last' = [text |-> text, outcome |-> outcome]
    /\ UNCHANGED gemini_api_key

\* The run queued by st.rerun(): the script runs with no chat input.
Rerun(outcome, cut) ==
    /\ pc = "rerun"
    /\ Commit(Script(Session, gemini_api_key, None, outcome, cut), FALSE)
    /\ UNCHANGED <<gemini_api_key, submitted, last>>

UserEntersKey ==
    \E key \in KeyInputs, outcome \in Outcomes, cut \in Cuts : EnterKey(key, outcome, cut)
UserSubmits ==
    \E text \in UserTexts, outcome \in Outcomes, cut \in Cuts : Submit(text, outcome, cut)
ScriptReruns ==
    \E outcome \in Outcomes, cut \in Cuts : Rerun(outcome, cut)

Next == UserEntersKey \/ UserSubmits \/ ScriptReruns

Spec == Init /\ [][Next]_vars

\* The run of the widget event that stopped the previous run
EventRuns == pc = "event" /\ (UserEntersKey \/ UserSubmits)

\* Streamlit runs every queued rerun, and the run of every widget event that
\* has arrived; the user is never forced to act.
FairSpec == Spec /\ WF_vars(ScriptReruns) /\ WF_vars(EventRuns)

----------------------------------------------------------------------------
(* Properties *)

IdleNow == pc = "idle"

\* No run of the session so far was stopped by a widget event or served an
\* event that arrived while another run was due: every submission was made
\* to an idle session and its run went on until the script ended it.
Undisturbed == ~disturbed

IsPrefix(a, b) == Len(a) <= Len(b) /\ \A i \in 1..Len(a) : a[i] = b[i]

Matches(text) == Contains(Lower(text), Keyword)

\* No submission so far asked for a hand-off.
NoHandoffTriggered ==
    \A i \in 1..Len(main_chat_history) :
        main_chat_history[i].role = "user" => ~Matches(main_chat_history[i].content)

\* C1: after N submissions none of which triggers a hand-off, each made to
\* an idle session and none cut short by another event, once all are
\* processed, main_chat_history has length 2N and alternates user turn,
\* assistant reply, in submission order.
C1_TranscriptIs2N ==
    (IdleNow /\ Undisturbed /\ NoHandoffTriggered) =>
        /\ Len(main_chat_history) = 2 * submitted
        /\ \A i \in 1..submitted :
              /\ main_chat_history[2 * i - 1].role = "user"
              /\ main_chat_history[2 * i].role = "assistant"

ErrorTextOf(agent_key, outcome) ==
    IF outcome = "APIError" THEN APIErrorText(agent_key) ELSE UnexpectedErrorText(agent_key)

\* C2: a submission handled, without being cut short by another event,
\* while the backing call fails ends with exactly one assistant turn
\* carrying the error text, right after its user turn.
C2_FailedCallYieldsOneErrorTurn ==
    (IdleNow /\ Undisturbed /\ last.outcome \in {"APIError", "Exception"}) =>
        LET n == Len(main_chat_history)
        IN  /\ n >= 2
            /\ main_chat_history[n] =
                   Turn("assistant", ErrorTextOf("Coordinator", last.outcome), ASSISTANT_AVATAR)
            /\ main_chat_history[n - 1] = Turn("user", last.text, USER_AVATAR)

AllowedTransitions ==
    {<<"Available", "Working">>, <<"Working", "Available">>, <<"Working", "Delegated">>,
     <<"Working", "Error">>, <<"Error", "Working">>, <<"Delegated", "Available">>}

\* C5: every status is one of the four labels and changes only along
\* Available -> Working, Working -> Available | Delegated | Error,
\* Error -> Working, Delegated -> Available.
C5_StatusTransitions ==
    [][\A k \in AgentKeys :
          /\ agent_status'[k] \in StatusLabels
          /\ agent_status'[k] # agent_status[k] =>
                <<agent_status[k], agent_status'[k]>> \in AllowedTransitions]_vars

\* A status has changed, and a further submission has been handled in the
\* changed status.
C5_Witness ==
    /\ IdleNow
    /\ submitted = 2
    /\ agent_status["Coordinator"] = "Working"

\* C7: with queued runs scheduled fairly, an agent that is Working after the
\* first submission, made to an idle session and not cut short, becomes Available, Delegated or Error unless further
\* user input (a submission or a change of the key field) arrives first.
C7_WorkingEventuallyLeaves ==
    \A k \in AgentKeys, key \in KeyInputs :
        (/\ agent_status[k] = "Working" /\ submitted = 1
         /\ gemini_api_key = key /\ Undisturbed) ~>
            \/ agent_status[k] \in {"Available", "Delegated", "Error"}
            \/ submitted > 1
            \/ gemini_api_key # key

\* C8: the run that handles a submission, unless a widget event cuts it
\* short, creates a hand-off packet exactly when the submitted text contains
\* "data science", case-insensitively.
C8_DecisionIsKeywordMatch ==
    [][(submitted' # submitted /\ Undisturbed') =>
          ((data_transfer' # NoPacket) <=> Matches(last'.text))]_vars

\* C10: once a delegated submission has been fully processed, no run cut
\* short by another event, the Coordinator is Available again and the last
\* turn of main_chat_history is the report marked as coming from the Analyst.
C10_DelegatedEndsWithReport ==
    (IdleNow /\ Undisturbed /\ last.outcome = "ok" /\ Matches(last.text)) =>
        LET n == Len(main_chat_history)
        IN  /\ agent_status["Coordinator"] = "Available"
            /\ n >= 1
            /\ main_chat_history[n].role = "assistant"
            /\ main_chat_history[n].avatar = ANALYST_AVATAR
            /\ IsPrefix(ReportPrefix, main_chat_history[n].content)

\* In every reachable state no packet is pending, the Analyst transcript is
\* empty and no agent is Delegated or Error: every call of
\* generate_agent_response ends the script run at line 71, so lines 190-198
\* never execute.  The hand-off of lines 214-246 is therefore never entered,
\* whether or not widget events cut runs short.
HandoffNeverStarts ==
    /\ data_transfer = NoPacket
    /\ analyst_chat_history = <<>>
    /\ \A k \in AgentKeys : agent_status[k] \in {"Available", "Working"}
    /\ \A i \in 1..Len(main_chat_history) : main_chat_history[i].role = "user"

\* C11 as stated: the run that handles the submission "What is a Pandas
\* DataFrame?", unless a widget event cuts it short, leaves a packet whose
\* prompt is exactly that text.
C11_PandasCreatesPacket ==
    [][(submitted' # submitted /\ Undisturbed' /\ last'.text = TextPandas) =>
          /\ data_transfer' # NoPacket
          /\ data_transfer'.prompt = TextPandas]_vars

\* C11 amended: after the submission "What is a Pandas DataFrame?", which
\* does not contain "data science", no hand-off packet exists.
C11_PandasCreatesNoPacket ==
    (submitted > 0 /\ last.text = TextPandas) =>
        (~Matches(last.text) /\ data_transfer = NoPacket)

C11_Witness ==
    /\ IdleNow
    /\ Undisturbed
    /\ last = [text |-> TextPandas, outcome |-> "ok"]
    /\ Len(main_chat_history) >= 1
    /\ main_chat_history[Len(main_chat_history)].content = TextPandas

\* C12: the run that handles a submission without the keyword, unless a
\* widget event cuts it short, adds exactly two turns to main_chat_history
\* and leaves analyst_chat_history, the Analyst's status and data_transfer
\* as they were.
C12_NoMatchAddsTwoTurns ==
    [][(submitted' # submitted /\ Undisturbed' /\ ~Matches(last'.text)) =>
          /\ Len(main_chat_history') = Len(main_chat_history) + 2
          /\ analyst_chat_history' = analyst_chat_history
          /\ agent_status'["Analyst"] = agent_status["Analyst"]
          /\ data_transfer' = data_transfer]_vars

\* C13: when a submission is made to an idle session in which no run was
\* ever cut short, no earlier submission is still awaiting its assistant
\* reply (the transcript does not end with an unanswered user turn).
C13_OneTurnAtATime ==
    [][(submitted' # submitted /\ Undisturbed') =>
          \/ main_chat_history = <<>>
          \/ main_chat_history[Len(main_chat_history)].role = "assistant"]_vars

\* C14: both transcripts are append-only: in every step the old value of
\* main_chat_history and of analyst_chat_history is a prefix of the new one.
C14_AppendOnly ==
    [][/\ IsPrefix(main_chat_history, main_chat_history')
       /\ IsPrefix(analyst_chat_history, analyst_chat_history')]_vars

\* Two different turns have been appended one after the other.
C14_Witness ==
    /\ Len(main_chat_history) >= 2
    /\ main_chat_history[1] # main_chat_history[2]

KeyUsable(key) == key # "" /\ ~ClientInitFails(key)

\* C15: a script run made while the key field is empty or client
\* initialisation fails appends no turn, changes no status, creates or
\* consumes no packet and makes no backing call.
C15_NoSessionWithoutClient ==
    [][~KeyUsable(gemini_api_key') =>
          UNCHANGED <<main_chat_history, analyst_chat_history, agent_status,
                      data_transfer, calls, sent>>]_vars

\* After a submission had been handled, the key field was emptied or set to
\* a key the client rejects, and the script has run with it.
C15_Witness ==
    /\ IdleNow
    /\ ~KeyUsable(gemini_api_key)
    /\ submitted >= 1

\* The (role, text) pairs of a contents list
RoleTextPairs(contents) ==
    [i \in 1..Len(contents) |-> <<contents[i].role, contents[i].parts[1].text>>]

\* The (role, text) pairs of a transcript, roles as the API names them
TranscriptPairs(history) ==
    [i \in 1..Len(history) |-> <<GeminiRole(history[i].role), history[i].content>>]

\* The position in main_chat_history of the turn submitted last
JustSubmitted ==
    CHOOSE i \in 1..Len(main_chat_history) :
        /\ main_chat_history[i].role = "user"
        /\ \A j \in (i + 1)..Len(main_chat_history) : main_chat_history[j].role # "user"

\* C16: once a submission without the keyword, made to an idle session and
\* not cut short, has been processed, generate_agent_response has called the
\* backing model for it, and the (role, text) pairs of the contents it sent
\* are the transcript up to and including the just-submitted turn, nothing
\* duplicated.
C16_ContextIsTranscript ==
    (IdleNow /\ Undisturbed /\ submitted > 0 /\ ~Matches(last.text)) =>
        /\ calls > 0
        /\ RoleTextPairs(sent) =
               TranscriptPairs(SubSeq(main_chat_history, 1, JustSubmitted))

====
